---- MODULE Spec2Model ----
(***************************************************************************)
(* NetBoxRestClient (nb-mcp-server/netbox_client.py): a REST client that   *)
(* maps get/create/update/delete and their bulk variants onto one HTTP     *)
(* request each.                                                           *)
(*                                                                         *)
(* Strings that the code takes apart or assembles (URLs, endpoints) are    *)
(* sequences of tokens in which "/" is a token of its own, so that         *)
(* str.strip('/'), str.rstrip('/') and the f-strings act on them as they   *)
(* act on characters.  JSON values are tagged records:                     *)
(*   [kind |-> "dict", obj |-> <record>]    a JSON object                  *)
(*   [kind |-> "list", items |-> <sequence of records>]                    *)
(*   [kind |-> "bool", b |-> <BOOLEAN>]       a delete result              *)
(* An Optional[...] argument is a sequence of length 0 (None) or 1.        *)
(***************************************************************************)
EXTENDS Integers, Sequences, FiniteSets, TLC

VARIABLES
    session,      \* the client object: base_url, api_url, token, verify_ssl, headers
    constructed,  \* history: the client object as __init__ left it
    limit,        \* the number of invocations this behaviour makes
    callLog,      \* history: the operations invoked so far, in order
    sentLog,      \* history: [op, verb] of every request handed to the transport, in order
    first,        \* history: the first invocation and the requests it sent (Optional)
    lastCall,     \* the arguments of the most recent invocation
    lastSent,     \* the requests the most recent invocation handed to the transport
    response,     \* the transport's answer to the most recent request (Optional)
    outcome       \* what the most recent invocation did: raised / parsed / value

vars == <<session, constructed, limit, callLog, sentLog, first, lastCall, lastSent, response, outcome>>

-----------------------------------------------------------------------------
(* Bounds *)

MaxCalls == 3      \* invocations per behaviour of Spec
MaxIds == 3        \* length of the id list given to bulk_delete in SpecBulkDelete
MaxLen == 5        \* tokens in an endpoint of SpecUrl

-----------------------------------------------------------------------------
(* Strings *)

RECURSIVE rstrip(_)
\* str.rstrip('/')
rstrip(s) ==
    IF s # <<>> /\ s[Len(s)] = "/" THEN rstrip(SubSeq(s, 1, Len(s) - 1)) ELSE s

RECURSIVE lstrip(_)
\* the leading half of str.strip('/')
lstrip(s) ==
    IF s # <<>> /\ s[1] = "/" THEN lstrip(SubSeq(s, 2, Len(s))) ELSE s

\* mutant of strip: only the leading slashes go (str.lstrip)
strip_leading_only(s) == lstrip(s)

\* str.strip('/')
strip(s) == lstrip(rstrip(s))

\* f"{id}" for an int
str(n) == ToString(n)

-----------------------------------------------------------------------------
(* The client *)

\* NetBoxRestClient.__init__
init(url, token, verify_ssl) ==
    LET base_url == rstrip(url) IN
    [ base_url   |-> base_url,
      api_url    |-> base_url \o <<"/", "api">>,
      token      |-> token,
      verify_ssl |-> verify_ssl,
      headers    |-> [ Authorization |-> <<"Token ", token>>,
                       ContentType   |-> "application/json",
                       Accept        |-> "application/json" ] ]

\* mutant of _build_url: `if id:` in place of `if id is not None:`
build_url_truthy(self, endpoint, id) ==
    LET e == strip(endpoint) IN
    IF id # <<>> /\ id[1] # 0
    THEN self.api_url \o <<"/">> \o e \o <<"/", str(id[1]), "/">>
    ELSE self.api_url \o <<"/">> \o e \o <<"/">>

\* NetBoxRestClient._build_url
build_url(self, endpoint, id) ==
    LET e == strip(endpoint) IN
    IF id # <<>>
    THEN self.api_url \o <<"/">> \o e \o <<"/", str(id[1]), "/">>
    ELSE self.api_url \o <<"/">> \o e \o <<"/">>

\* f"{self._build_url(endpoint)}bulk/"
bulk_url(self, endpoint) == build_url(self, endpoint, <<>>) \o <<"bulk", "/">>

\* requests.Response.raise_for_status: TRUE when it raises HTTPError
raise_for_status(resp) == 400 <= resp.status_code /\ resp.status_code < 600

\* `key in data` for a parsed body: a key test on an object; on a list of
\* objects an element test, which no string passes
In(key, data) ==
    IF data.kind = "dict" THEN key \in DOMAIN data.obj ELSE FALSE

\* the request session.<verb>(url, params=..., json=..., verify=...) hands to the transport
Request(self, verb, url, params, json) ==
    [ verb |-> verb, url |-> url, params |-> params, json |-> json,
      headers |-> self.headers, verify |-> self.verify_ssl ]

\* leaving a method through the HTTPError of raise_for_status
Raise(self, req) ==
    [ self |-> self, sent |-> <<req>>, raised |-> TRUE, parsed |-> FALSE, value |-> <<>> ]

\* leaving a method through return
Return(self, req, parsed, value) ==
    [ self |-> self, sent |-> <<req>>, raised |-> FALSE, parsed |-> parsed, value |-> <<value>> ]

Bool(b) == [kind |-> "bool", b |-> b]

\* mutant of get: `results` is unwrapped whether or not an id was given
get_unwraps_always(self, endpoint, id, params, resp) ==
    LET req == Request(self, "GET", build_url(self, endpoint, id), params, <<>>) IN
    IF raise_for_status(resp) THEN Raise(self, req)
    ELSE LET data == resp.body IN
         IF In("results", data)
         THEN Return(self, req, TRUE, data.obj.results)
         ELSE Return(self, req, TRUE, data)

\* mutant of get: a failed request is sent once more before the error is raised
get_retry(self, endpoint, id, params, resp) ==
    LET req == Request(self, "GET", build_url(self, endpoint, id), params, <<>>) IN
    IF raise_for_status(resp)
    THEN [ self |-> self, sent |-> <<req, req>>, raised |-> TRUE, parsed |-> FALSE,
           value |-> <<>> ]
    ELSE LET data == resp.body IN
         IF id = <<>> /\ In("results", data)
         THEN Return(self, req, TRUE, data.obj.results)
         ELSE Return(self, req, TRUE, data)

\* NetBoxRestClient.get
get(self, endpoint, id, params, resp) ==
    LET req == Request(self, "GET", build_url(self, endpoint, id), params, <<>>) IN
    IF raise_for_status(resp) THEN Raise(self, req)
    ELSE LET data == resp.body IN
         IF id = <<>> /\ In("results", data)
         THEN Return(self, req, TRUE, data.obj.results)
         ELSE Return(self, req, TRUE, data)

\* NetBoxRestClient.create
create(self, endpoint, data, resp) ==
    LET req == Request(self, "POST", build_url(self, endpoint, <<>>), <<>>, <<data>>) IN
    IF raise_for_status(resp) THEN Raise(self, req)
    ELSE Return(self, req, TRUE, resp.body)

\* mutant of update: PUT in place of PATCH
update_put(self, endpoint, id, data, resp) ==
    LET req == Request(self, "PUT", build_url(self, endpoint, <<id>>), <<>>, <<data>>) IN
    IF raise_for_status(resp) THEN Raise(self, req)
    ELSE Return(self, req, TRUE, resp.body)

\* NetBoxRestClient.update
update(self, endpoint, id, data, resp) ==
    LET req == Request(self, "PATCH", build_url(self, endpoint, <<id>>), <<>>, <<data>>) IN
    IF raise_for_status(resp) THEN Raise(self, req)
    ELSE Return(self, req, TRUE, resp.body)

\* mutant of delete: `response.ok` in place of `response.status_code == 204`
delete_ok(self, endpoint, id, resp) ==
    LET req == Request(self, "DELETE", build_url(self, endpoint, <<id>>), <<>>, <<>>) IN
    IF raise_for_status(resp) THEN Raise(self, req)
    ELSE Return(self, req, FALSE, Bool(resp.status_code < 400))

\* NetBoxRestClient.delete
delete(self, endpoint, id, resp) ==
    LET req == Request(self, "DELETE", build_url(self, endpoint, <<id>>), <<>>, <<>>) IN
    IF raise_for_status(resp) THEN Raise(self, req)
    ELSE Return(self, req, FALSE, Bool(resp.status_code = 204))

\* mutant of bulk_create: raise_for_status is not called
bulk_create_unchecked(self, endpoint, data, resp) ==
    LET req == Request(self, "POST", bulk_url(self, endpoint), <<>>, <<data>>) IN
    Return(self, req, TRUE, resp.body)

\* mutant of bulk_create: `results` is unwrapped as get does
bulk_create_unwraps(self, endpoint, data, resp) ==
    LET req == Request(self, "POST", bulk_url(self, endpoint), <<>>, <<data>>) IN
    IF raise_for_status(resp) THEN Raise(self, req)
    ELSE IF In("results", resp.body)
         THEN Return(self, req, TRUE, resp.body.obj.results)
         ELSE Return(self, req, TRUE, resp.body)

\* NetBoxRestClient.bulk_create
bulk_create(self, endpoint, data, resp) ==
    LET req == Request(self, "POST", bulk_url(self, endpoint), <<>>, <<data>>) IN
    IF raise_for_status(resp) THEN Raise(self, req)
    ELSE Return(self, req, TRUE, resp.body)

\* NetBoxRestClient.bulk_update
bulk_update(self, endpoint, data, resp) ==
    LET req == Request(self, "PATCH", bulk_url(self, endpoint), <<>>, <<data>>) IN
    IF raise_for_status(resp) THEN Raise(self, req)
    ELSE Return(self, req, TRUE, resp.body)

\* mutant of the id objects: built in reverse order
IdObjects_reversed(ids) ==
    [kind |-> "list", items |-> [i \in 1..Len(ids) |-> [id |-> ids[Len(ids) + 1 - i]]]]

\* [{"id": id} for id in ids]
IdObjects(ids) ==
    [kind |-> "list", items |-> [i \in 1..Len(ids) |-> [id |-> ids[i]]]]

\* mutant of bulk_delete: the body's content type is set on the shared session
bulk_delete_sets_header(self, endpoint, ids, resp) ==
    LET req == Request(self, "DELETE", bulk_url(self, endpoint), <<>>, <<IdObjects(ids)>>)
        after == [self EXCEPT !.headers.ContentType = "application/json; charset=utf-8"]
    IN  IF raise_for_status(resp) THEN Raise(after, req)
        ELSE Return(after, req, FALSE, Bool(resp.status_code = 204))

\* NetBoxRestClient.bulk_delete
bulk_delete(self, endpoint, ids, resp) ==
    LET req == Request(self, "DELETE", bulk_url(self, endpoint), <<>>, <<IdObjects(ids)>>) IN
    IF raise_for_status(resp) THEN Raise(self, req)
    ELSE Return(self, req, FALSE, Bool(resp.status_code = 204))

-----------------------------------------------------------------------------
(* Inputs *)

RECURSIVE SeqsUpTo(_, _)
\* every sequence over S of length 0..n
SeqsUpTo(S, n) ==
    IF n = 0 THEN {<<>>}
    ELSE LET shorter == SeqsUpTo(S, n - 1) IN
         shorter \cup {Append(q, x) : q \in shorter, x \in S}

Dict(obj) == [kind |-> "dict", obj |-> obj]
List(items) == [kind |-> "list", items |-> items]

ExampleUrl == <<"https:", "/", "/", "nb.example.com">>
Urls == {ExampleUrl, ExampleUrl \o <<"/">>}
Tokens == {"0123abcd"}

ExampleEndpoint == <<"dcim", "/", "sites">>
Endpoints == {ExampleEndpoint, <<"/", "dcim", "/", "sites", "/">>}
UrlEndpoints == SeqsUpTo({"/", "dcim"}, MaxLen)

Ids == {0, 5}
OptIds == {<<>>} \cup {<<i>> : i \in Ids}
OptParams == {<<>>, <<[name |-> "X"]>>}

ExampleData == Dict([name |-> "X", slug |-> "x"])
Datas == {ExampleData, Dict([id |-> 1, name |-> "Y"])}
BulkDatas == { List(<<>>),
               List(<<[id |-> 1, name |-> "Y"], [id |-> 2, name |-> "Z"]>>),
               List(<<[id |-> 2, name |-> "Z"], [id |-> 1, name |-> "Y"]>>) }

FewIdLists == {<<>>, <<1, 2, 3>>, <<2, 1, 2>>}
IdLists == SeqsUpTo({1, 2, 3}, MaxIds)

Envelope == Dict([results |-> List(<<[id |-> 1], [id |-> 2]>>), count |-> 2])
Bodies == { Envelope,
            Dict([id |-> 1, name |-> "X"]),
            List(<<[id |-> 1, name |-> "X"]>>) }
Statuses == {200, 204, 304, 404, 500}
Responses == [status_code : Statuses, body : Bodies]
OkResponse == [status_code |-> 200, body |-> Envelope]
FewResponses == {OkResponse, [status_code |-> 404, body |-> Dict([detail |-> "Not found."])]}
DeleteResponses == [status_code : {200, 204, 404}, body : {Dict([id |-> 1, name |-> "X"])}]

-----------------------------------------------------------------------------
(* State machine *)

NoCall == [op |-> "none", endpoint |-> <<>>, id |-> <<>>, params |-> <<>>,
           data |-> <<>>, ids |-> <<>>]

Call(op, endpoint, id, params, data, ids) ==
    [op |-> op, endpoint |-> endpoint, id |-> id, params |-> params,
     data |-> data, ids |-> ids]

\* the client as constructed, before any call
Constructed ==
    /\ \E url \in Urls, token \in Tokens, verify_ssl \in BOOLEAN :
          /\ session = init(url, token, verify_ssl)
          /\ constructed = init(url, token, verify_ssl)
    /\ callLog = <<>>
    /\ sentLog = <<>>
    /\ first = <<>>
    /\ lastCall = NoCall
    /\ lastSent = <<>>
    /\ response = <<>>
    /\ outcome = [raised |-> FALSE, parsed |-> FALSE, value |-> <<>>]

Init == Constructed /\ limit = MaxCalls

\* a behaviour of a single invocation
InitOne == Constructed /\ limit = 1

\* one invocation: `call` ran to its return or raise with effect r, the
\* transport having answered resp
Invoke(call, resp, r) ==
    /\ Len(callLog) < limit
    /\ session' = r.self
    /\ UNCHANGED <<constructed, limit>>
    /\ callLog' = Append(callLog, call.op)
    /\ sentLog' = sentLog \o [i \in 1..Len(r.sent) |-> [op |-> call.op, verb |-> r.sent[i].verb]]
    /\ first' = IF first = <<>> THEN <<[call |-> call, sent |-> r.sent]>> ELSE first
    /\ lastCall' = call
    /\ lastSent' = r.sent
    /\ response' = <<resp>>
    /\ outcome' = [raised |-> r.raised, parsed |-> r.parsed, value |-> r.value]

Get(endpoint, id, params, resp) ==
    Invoke(Call("get", endpoint, id, params, <<>>, <<>>), resp,
           get(session, endpoint, id, params, resp))

Create(endpoint, data, resp) ==
    Invoke(Call("create", endpoint, <<>>, <<>>, <<data>>, <<>>), resp,
           create(session, endpoint, data, resp))

Update(endpoint, id, data, resp) ==
    Invoke(Call("update", endpoint, <<id>>, <<>>, <<data>>, <<>>), resp,
           update(session, endpoint, id, data, resp))

Delete(endpoint, id, resp) ==
    Invoke(Call("delete", endpoint, <<id>>, <<>>, <<>>, <<>>), resp,
           delete(session, endpoint, id, resp))

BulkCreate(endpoint, data, resp) ==
    Invoke(Call("bulk_create", endpoint, <<>>, <<>>, <<data>>, <<>>), resp,
           bulk_create(session, endpoint, data, resp))

BulkUpdate(endpoint, data, resp) ==
    Invoke(Call("bulk_update", endpoint, <<>>, <<>>, <<data>>, <<>>), resp,
           bulk_update(session, endpoint, data, resp))

BulkDelete(endpoint, ids, resp) ==
    Invoke(Call("bulk_delete", endpoint, <<>>, <<>>, <<>>, ids), resp,
           bulk_delete(session, endpoint, ids, resp))

\* Spec: up to MaxCalls invocations in a row on one client
Next ==
    \/ \E e \in Endpoints, id \in OptIds, r \in FewResponses : Get(e, id, <<>>, r)
    \/ \E e \in Endpoints, d \in Datas, r \in FewResponses : Create(e, d, r)
    \/ \E e \in Endpoints, id \in Ids, r \in FewResponses : Update(e, id, ExampleData, r)
    \/ \E e \in Endpoints, id \in Ids, r \in FewResponses : Delete(e, id, r)
    \/ \E e \in Endpoints, d \in BulkDatas, r \in FewResponses : BulkCreate(e, d, r)
    \/ \E e \in Endpoints, d \in BulkDatas, r \in FewResponses : BulkUpdate(e, d, r)
    \/ \E e \in Endpoints, ids \in FewIdLists, r \in FewResponses : BulkDelete(e, ids, r)

Spec == Init /\ [][Next]_vars

\* SpecResponses: one invocation, every status and body the transport may answer
NextResponses ==
    \/ \E e \in Endpoints, id \in OptIds, p \in OptParams, r \in Responses : Get(e, id, p, r)
    \/ \E e \in Endpoints, d \in Datas, r \in Responses : Create(e, d, r)
    \/ \E e \in Endpoints, id \in Ids, d \in Datas, r \in Responses : Update(e, id, d, r)
    \/ \E e \in Endpoints, id \in Ids, r \in Responses : Delete(e, id, r)
    \/ \E e \in Endpoints, d \in BulkDatas, r \in Responses : BulkCreate(e, d, r)
    \/ \E e \in Endpoints, d \in BulkDatas, r \in Responses : BulkUpdate(e, d, r)
    \/ \E e \in Endpoints, ids \in FewIdLists, r \in Responses : BulkDelete(e, ids, r)

SpecResponses == InitOne /\ [][NextResponses]_vars

\* SpecUrl: one invocation, every endpoint of up to MaxLen tokens
NextUrl ==
    \/ \E e \in UrlEndpoints, id \in OptIds : Get(e, id, <<>>, OkResponse)
    \/ \E e \in UrlEndpoints : Create(e, ExampleData, OkResponse)
    \/ \E e \in UrlEndpoints, id \in Ids : Update(e, id, ExampleData, OkResponse)
    \/ \E e \in UrlEndpoints, id \in Ids : Delete(e, id, OkResponse)
    \/ \E e \in UrlEndpoints, d \in BulkDatas : BulkCreate(e, d, OkResponse)
    \/ \E e \in UrlEndpoints, d \in BulkDatas : BulkUpdate(e, d, OkResponse)
    \/ \E e \in UrlEndpoints, ids \in FewIdLists : BulkDelete(e, ids, OkResponse)

SpecUrl == InitOne /\ [][NextUrl]_vars

\* SpecBulkDelete: one invocation, every id list of up to MaxIds ids
NextBulkDelete ==
    \/ \E e \in Endpoints, id \in OptIds, r \in DeleteResponses : Get(e, id, <<>>, r)
    \/ \E e \in Endpoints, r \in DeleteResponses : Create(e, ExampleData, r)
    \/ \E e \in Endpoints, id \in Ids, r \in DeleteResponses : Update(e, id, ExampleData, r)
    \/ \E e \in Endpoints, id \in Ids, r \in DeleteResponses : Delete(e, id, r)
    \/ \E e \in Endpoints, d \in BulkDatas, r \in DeleteResponses : BulkCreate(e, d, r)
    \/ \E e \in Endpoints, d \in BulkDatas, r \in DeleteResponses : BulkUpdate(e, d, r)
    \/ \E e \in Endpoints, ids \in IdLists, r \in DeleteResponses : BulkDelete(e, ids, r)

SpecBulkDelete == InitOne /\ [][NextBulkDelete]_vars

-----------------------------------------------------------------------------
(* Properties *)

Called == lastCall.op # "none"
Status == response[1].status_code
Body == response[1].body
Sent == lastSent[1]
HasResultsField(body) == body.kind = "dict" /\ "results" \in DOMAIN body.obj
IsErrorStatus(n) == 400 <= n /\ n < 600
BulkOps == {"bulk_create", "bulk_update", "bulk_delete"}
IdText == (0 :> "0") @@ (5 :> "5")
CollectionUrl == session.api_url \o <<"/">> \o ExampleEndpoint \o <<"/">>
RaisedAtOnce ==
    outcome.raised /\ outcome.value = <<>> /\ ~outcome.parsed /\ Len(lastSent) = 1

\* C1: a get that did not raise returns the body's `results` value when no id
\* was given and the body has a `results` field, the body itself when no id
\* was given and the body has none, and the body itself whenever an id was
\* given, `results` or not.
C1_GetUnwrapsResults ==
    (lastCall.op = "get" /\ ~outcome.raised) =>
        /\ (lastCall.id = <<>> /\ HasResultsField(Body)) =>
               outcome.value = <<Body.obj.results>>
        /\ (lastCall.id = <<>> /\ ~HasResultsField(Body)) => outcome.value = <<Body>>
        /\ lastCall.id # <<>> => outcome.value = <<Body>>

C1_Witness ==
    /\ lastCall.op = "get" /\ lastCall.id = <<>> /\ Status = 200
    /\ Body = Envelope
    /\ outcome.value = <<List(<<[id |-> 1], [id |-> 2]>>)>>

\* C2 as stated: every status outside 200..299 makes get, create, update,
\* bulk_create and bulk_update raise at once, with no value, no parsing of the
\* body and no second request.
C2_AnyNonSuccessRaises ==
    (lastCall.op \in {"get", "create", "update", "bulk_create", "bulk_update"}
        /\ ~(200 <= Status /\ Status < 300)) => RaisedAtOnce

\* C2 amended: every status in 400..599 makes get, create, update,
\* bulk_create and bulk_update raise at once, with no value, no parsing of the
\* body and no second request.
C2_ErrorStatusRaises ==
    (lastCall.op \in {"get", "create", "update", "bulk_create", "bulk_update"}
        /\ IsErrorStatus(Status)) => RaisedAtOnce

C2_Witness ==
    lastCall.op = "bulk_create" /\ Status = 500 /\ outcome.raised

\* C3: delete and bulk_delete return true exactly when the status is 204,
\* false exactly when the status is another one that did not raise, and on an
\* error status (400..599) they raise and return nothing.
C3_DeleteBoolean ==
    lastCall.op \in {"delete", "bulk_delete"} =>
        /\ (outcome.value = <<Bool(TRUE)>>) <=> (Status = 204)
        /\ (outcome.value = <<Bool(FALSE)>>) <=> (~outcome.raised /\ Status # 204)
        /\ outcome.raised <=> IsErrorStatus(Status)
        /\ outcome.raised => outcome.value = <<>>

C3_Witness ==
    lastCall.op = "delete" /\ Status = 200 /\ outcome.value = <<Bool(FALSE)>>

\* an endpoint naming at least one path segment
ValidEndpoint(e) == \E i \in 1..Len(e) : e[i] # "/"

\* C4: for an endpoint with at least one segment, the URL is the API root, one
\* slash, the endpoint without its leading and trailing slashes (interior ones
\* kept), one slash, and then nothing (collection), `{id}/` (single object) or
\* `bulk/` (bulk); it ends with exactly one slash and no slash is doubled on
\* either side of the endpoint.
C4_UrlShape ==
    (Called /\ ValidEndpoint(lastCall.endpoint)) =>
        LET e == lastCall.endpoint
            url == Sent.url
            api == session.api_url
            tail == IF lastCall.op \in BulkOps THEN <<"bulk", "/">>
                    ELSE IF lastCall.id # <<>> THEN <<IdText[lastCall.id[1]], "/">>
                    ELSE <<>>
        IN  /\ \E a \in 0..Len(e), b \in 0..Len(e) :
                  /\ a + b < Len(e)
                  /\ \A i \in 1..a : e[i] = "/"
                  /\ \A i \in (Len(e) - b + 1)..Len(e) : e[i] = "/"
                  /\ e[a + 1] # "/"
                  /\ e[Len(e) - b] # "/"
                  /\ url = api \o <<"/">> \o SubSeq(e, a + 1, Len(e) - b) \o <<"/">> \o tail
                  /\ url[Len(api) + 1] = "/" /\ url[Len(api) + 2] # "/"
                  /\ url[Len(api) + 1 + (Len(e) - a - b)] # "/"
                  /\ url[Len(api) + 2 + (Len(e) - a - b)] = "/"
            /\ api[Len(api)] # "/"
            /\ url[Len(url)] = "/"
            /\ url[Len(url) - 1] # "/"

C4_Witness ==
    /\ lastCall.op = "update"
    /\ lastCall.endpoint = <<"/", "dcim", "/", "dcim", "/">>
    /\ lastCall.id = <<5>>
    /\ Sent.url = session.api_url \o <<"/", "dcim", "/", "dcim", "/", "5", "/">>

\* C5: bulk_delete sends one DELETE request to the bulk URL whose body is the
\* list with one {"id": ids[i]} per position i of ids, in order, duplicates
\* kept; for ids = [1, 2, 3] it is [{"id": 1}, {"id": 2}, {"id": 3}].
C5_BulkDeleteBody ==
    lastCall.op = "bulk_delete" =>
        /\ Len(lastSent) = 1
        /\ Sent.verb = "DELETE"
        /\ Sent.url = CollectionUrl \o <<"bulk", "/">>
        /\ Len(Sent.json) = 1
        /\ Sent.json[1].kind = "list"
        /\ Len(Sent.json[1].items) = Len(lastCall.ids)
        /\ \A i \in 1..Len(lastCall.ids) : Sent.json[1].items[i] = [id |-> lastCall.ids[i]]
        /\ lastCall.ids = <<1, 2, 3>> =>
               Sent.json[1].items = <<[id |-> 1], [id |-> 2], [id |-> 3]>>

C5_Witness ==
    /\ lastCall.op = "bulk_delete"
    /\ lastCall.ids = <<1, 2, 3>>
    /\ Sent.json = <<List(<<[id |-> 1], [id |-> 2], [id |-> 3]>>)>>

\* C6: every invocation, returning or raising, hands exactly one request to
\* the transport: after n invocations n requests were sent, the i-th by the
\* i-th invocation.
C6_OneRequestPerCall ==
    /\ Len(sentLog) = Len(callLog)
    /\ \A i \in 1..Len(sentLog) : sentLog[i].op = callLog[i]
    /\ Called => Len(lastSent) = 1

C6_Witness ==
    /\ Len(callLog) = 2
    /\ callLog[1] = "get"
    /\ callLog[2] = "bulk_update"
    /\ outcome.raised
    /\ Len(sentLog) = 2

VerbOf ==
    [ get |-> "GET", create |-> "POST", bulk_create |-> "POST", update |-> "PATCH",
      bulk_update |-> "PATCH", delete |-> "DELETE", bulk_delete |-> "DELETE" ]

\* C7: get sends GET, create and bulk_create POST, update and bulk_update
\* PATCH, delete and bulk_delete DELETE; create sends the caller's data as the
\* body to {base_url}/api/{endpoint}/, so that on https://nb.example.com
\* create("dcim/sites", {"name": "X", "slug": "x"}) sends POST
\* https://nb.example.com/api/dcim/sites/ with that body.
C7_VerbsAndCreateTarget ==
    Called =>
        /\ Sent.verb = VerbOf[lastCall.op]
        /\ lastCall.op = "create" =>
              /\ Sent.url = session.base_url \o <<"/", "api", "/">> \o ExampleEndpoint \o <<"/">>
              /\ Sent.json = lastCall.data
        /\ (lastCall.op = "create" /\ lastCall.endpoint = ExampleEndpoint
                /\ lastCall.data = <<ExampleData>>) =>
              /\ Sent.url = <<"https:", "/", "/", "nb.example.com", "/", "api", "/",
                              "dcim", "/", "sites", "/">>
              /\ Sent.json = <<Dict([name |-> "X", slug |-> "x"])>>

C7_Witness ==
    /\ lastCall.op = "create"
    /\ lastCall.endpoint = ExampleEndpoint
    /\ lastCall.data = <<ExampleData>>
    /\ Sent.verb = "POST"

\* C8: no invocation, returning or raising, changes the client built by the
\* constructor; every request carries its headers and its verify flag; and an
\* invocation with the arguments of the first one sends the request the first
\* one sent.
C8_SessionFixed ==
    /\ session = constructed
    /\ Called =>
          /\ Sent.headers = [ Authorization |-> <<"Token ", constructed.token>>,
                              ContentType   |-> "application/json",
                              Accept        |-> "application/json" ]
          /\ Sent.verify = constructed.verify_ssl
    /\ (first # <<>> /\ lastCall = first[1].call) => lastSent = first[1].sent

C8_Witness ==
    /\ Len(callLog) = 3
    /\ lastCall = first[1].call
    /\ callLog[2] # callLog[1]
    /\ lastSent = first[1].sent
    /\ outcome.raised

\* C9: create, update, bulk_create and bulk_update send the caller's data as
\* the body, unchanged, in one request; when they do not raise they return the
\* response body itself, `results` field or not; the bulk ones send to the
\* bulk URL.
C9_WritesForwardAndReturnBody ==
    lastCall.op \in {"create", "update", "bulk_create", "bulk_update"} =>
        /\ Len(lastSent) = 1
        /\ Sent.json = lastCall.data
        /\ ~outcome.raised => outcome.value = <<Body>>
        /\ lastCall.op \in BulkOps => Sent.url = CollectionUrl \o <<"bulk", "/">>

C9_Witness ==
    /\ lastCall.op = "bulk_create"
    /\ Len(lastCall.data[1].items) = 2
    /\ Body = Envelope
    /\ outcome.value = <<Envelope>>

\* C10: an id of 0 is an id: get, update and delete then address
\* {api_root}/{endpoint}/0/, and get returns the body without unwrapping
\* `results`; get addresses the collection URL, and unwraps, only without id.
C10_IdZeroIsAnId ==
    /\ (lastCall.op \in {"get", "update", "delete"} /\ lastCall.id = <<0>>) =>
           Sent.url = CollectionUrl \o <<"0", "/">>
    /\ (lastCall.op = "get" /\ lastCall.id = <<0>> /\ ~outcome.raised) =>
           outcome.value = <<Body>>
    /\ lastCall.op = "get" => ((Sent.url = CollectionUrl) <=> (lastCall.id = <<>>))
    /\ (lastCall.op = "get" /\ ~outcome.raised /\ outcome.value # <<Body>>) =>
           lastCall.id = <<>>

C10_Witness ==
    /\ lastCall.op = "get"
    /\ lastCall.id = <<0>>
    /\ Body = Envelope
    /\ outcome.value = <<Envelope>>
    /\ Sent.url = CollectionUrl \o <<"0", "/">>

====
